---- MODULE Spec2Model ----
(***************************************************************************)
(* Model of the slang-server system-test harness                           *)
(* (tests/system/conftest.py): the notification waiters of                 *)
(* LanguageClientProtocol, the SlangDoc document shadow and the client     *)
(* fixture; and of the rr wrapper script (scripts/lsp-rr-wrapper.py).      *)
(*                                                                         *)
(* Spec        the waiters: the test task, the stdout reader that          *)
(*             dispatches notifications, and the server process.           *)
(* FairSpec    Spec with the fairness of the event loop.                   *)
(* TimeoutSpec Spec with awaits that can be cancelled by a timeout.         *)
(* SendSpec    the session of a test that sends documents and awaits the   *)
(*             server's replies.                                           *)
(* DocSpec     one SlangDoc object: openText, append, onChange and         *)
(*             positionFromOffset, with the text the server holds.         *)
(* FixFairSpec FixtureSpec with the fairness of the event loop.            *)
(* FixtureSpec the client fixture: start, initialize, the test body,       *)
(*             shutdown, exit, stop, with the server process and the       *)
(*             stderr relay task.                                          *)
(* WrapSpec    lsp-rr-wrapper.py: run_command, its three relay threads,    *)
(*             the child process and the wrapper's stdin.                  *)
(* WrapFairSpec WrapSpec with every thread of the wrapper scheduled.       *)
(***************************************************************************)
EXTENDS Integers, Sequences, FiniteSets, TLC

(* ------------------------------ bounds --------------------------------- *)
\* notifications the server writes in one run
MaxNotifs == 2
\* futures wait_for_notification creates in one run
MaxFutures == 2
\* openText / append calls of the test body in one run
MaxSends == 2
\* longest text given to openText or append
MaxLen == 1
\* change operations (append, onChange) on one document
MaxChanges == 2
\* lines the server writes to its stderr in one run
MaxLines == 2
\* notifications the test body sends while it holds the client
MaxBodyMsgs == 1
\* bytes the wrapper's child writes to its stdout
MaxBytes == 2
\* bytes the wrapper's child writes to its stderr
MaxErrBytes == 1
\* bytes written to the wrapper's stdin
MaxTyped == 1

(* ----------------------------- constants ------------------------------- *)
CANCEL_REQUEST == "$/cancelRequest"
PUBLISH_DIAGNOSTICS == "textDocument/publishDiagnostics"
LOG_MESSAGE == "window/logMessage"
Methods == {CANCEL_REQUEST, PUBLISH_DIAGNOSTICS, LOG_MESSAGE}

\* dict.pop(method_name, None): no future registered
NoFuture == 0

\* what self._get_handler / self._execute_notification do for one
\* notification: no handler is registered (KeyError, JsonRpcMethodNotFound),
\* the handler returns, or the handler raises
HandlerOutcomes == {"unknown", "ok", "failed"}

VARIABLES
    proc,                   \* the server process: "running" | "exited"
    stdout,                 \* notifications written by the server, not yet read
    nwritten,               \* notifications written so far; the params of the
                            \* n-th notification written are n
    answered,               \* sends the server has answered with diagnostics
    readerPc,               \* the stdout reader task: "reading" | "eof"
    nread,                  \* notifications dispatched so far
    lastDispatch,           \* what _handle_notification did, when the last
                            \* step was a call of it
    _notification_futures,  \* LanguageClientProtocol._notification_futures
    futures,                \* the Future objects created so far
    nfut,                   \* how many were created
    testPc,                 \* the test task: "run" | "yield" | "await" | "done"
    awaiting,               \* the future the test task awaits
    nsent,                  \* didOpen / didChange notifications sent by the test
    expecting,              \* a send was made and its waiter is not yet registered
    missed,                 \* a reply was dispatched while expecting
    dropped,                \* methods a notification of which reached no waiter
    diagnostics,            \* SlangClient.diagnostics, for the one uri published
    messages,               \* SlangClient.messages
    log_messages,           \* SlangClient.log_messages
    doc,                    \* the SlangDoc object: uri, text, next_version
    sent,                   \* uri and version of every didOpen / didChange sent
    serverText,             \* the text the server holds for the document
    onlyAppends,            \* every change so far was made by append
    lastOp,                 \* the last operation on the document
    lastPos,                \* offset and result of the last positionFromOffset
    fixPc,                  \* where the client fixture coroutine is
    options,                \* the Flags: rr, gdb
    srv,                    \* the spawned process: "none" | "running" | "exited"
    cmd,                    \* the command line start_io was given
    inbox,                  \* the message the server has not yet handled
    resp,                   \* the response the client has not yet read
    sentMsgs,               \* initialize / shutdown / exit as sent, in order
    bodyOutcome,            \* "none" | "passed" | "failed"
    stopCalled,             \* client.stop() was called
    stopFound,              \* the state of the process when stop() was called
    stop_event,             \* client._stop_event
    exitNoticed,            \* the client's process-exit task has run
    relayPc,                \* stderr_readline: "none" | "head" | "read" | "ended"
    errPipe,                \* lines in the stderr pipe, oldest first
    errWritten,             \* lines the server wrote to stderr
    relayed,                \* lines stderr_readline passed to the logger, in order
    runPc,                  \* where run_command of lsp-rr-wrapper.py is
    process,                \* the child of the wrapper: "none" | "running" | "exited"
    stdin_thread,           \* the thread running relay_input
    stdout_thread,          \* the thread relaying the child's stdout
    stderr_thread,          \* the thread relaying the child's stderr
    sys_stdin,              \* bytes waiting on the wrapper's stdin
    stdinClosed,            \* the wrapper's stdin is at end-of-file after them
    process_stdin,          \* bytes written to the child's stdin
    process_stdout,         \* bytes in the child's stdout pipe
    process_stderr,         \* bytes in the child's stderr pipe
    childWrote,             \* every byte the child wrote to its stdout
    nErr,                   \* bytes the child wrote to its stderr
    nTyped,                 \* bytes written to the wrapper's stdin
    stdout_file,            \* the contents of the stdout file
    sys_stdout,             \* what the wrapper wrote to its stdout
    sys_stderr              \* what the wrapper wrote to its stderr

srvVars == <<proc, stdout, nwritten, answered>>
rdrVars == <<readerPc, nread, lastDispatch>>
futVars == <<_notification_futures, futures, nfut>>
tstVars == <<testPc, awaiting, nsent, expecting>>
notifVars == <<srvVars, rdrVars, futVars, tstVars, missed, dropped>>

docVars == <<doc, sent, serverText, onlyAppends, lastOp, lastPos>>

fixVars == <<fixPc, options, srv, cmd, inbox, resp, sentMsgs, bodyOutcome,
             stopCalled, stopFound, stop_event, exitNoticed, relayPc, errPipe, errWritten,
             relayed>>

logVars == <<diagnostics, messages, log_messages>>

\* the stdin and stderr files are written and never read: they are left out
wrapVars == <<runPc, process, stdin_thread, stdout_thread, stderr_thread, sys_stdin,
              stdinClosed, process_stdin, process_stdout, process_stderr, childWrote,
              nErr, nTyped, stdout_file, sys_stdout, sys_stderr>>

vars == <<notifVars, logVars, docVars, fixVars, wrapVars>>

\* what the actions of the session leave alone
notNotif == <<logVars, docVars, fixVars, wrapVars>>
\* what the actions on the document leave alone
notDoc == <<notifVars, logVars, fixVars, wrapVars>>
\* what the actions of the fixture leave alone
notFix == <<notifVars, logVars, docVars, wrapVars>>
\* what the wrapper script leaves alone
notWrap == <<notifVars, logVars, docVars, fixVars>>

FutureIds == 1..MaxFutures

NoneFuture ==
    [state |-> "none", result |-> 0, method |-> "", regAt |-> 0,
     setCalls |-> 0, afterSend |-> 0, late |-> FALSE]

\* self.diagnostics = {}: no entry for the uri
NoDiagnostics == 0

NoDispatch ==
    [method |-> "", params |-> 0, re |-> 0, waiter |-> NoFuture,
     handler |-> "none"]

(* --------------------- LanguageClientProtocol -------------------------- *)

\* a protocol that kept the last notification for a later waiter
NewFutureBuffered(m) ==
    [state |-> IF nread > 0 THEN "done" ELSE "pending",
     result |-> nread, method |-> m, regAt |-> nread, setCalls |-> 0,
     afterSend |-> IF expecting /\ m = PUBLISH_DIAGNOSTICS THEN nsent ELSE 0,
     late |-> m \in dropped]

\* future: Future = Future()   (callback=None, the form the tests use);
\* regAt, afterSend and late record when it was created
NewFuture(m) ==
    [state |-> "pending", result |-> 0, method |-> m, regAt |-> nread,
     setCalls |-> 0,
     afterSend |-> IF expecting /\ m = PUBLISH_DIAGNOSTICS THEN nsent ELSE 0,
     late |-> m \in dropped]

\* a registration that kept the waiter already in the slot
StoreFutureKeepFirst(m, f) ==
    IF _notification_futures[m] # NoFuture
    THEN _notification_futures
    ELSE [_notification_futures EXCEPT ![m] = f]

\* self._notification_futures[method] = future
StoreFuture(m, f) == [_notification_futures EXCEPT ![m] = f]

\* LanguageClientProtocol.wait_for_notification(method): the state change
Register(m) ==
    /\ nfut < MaxFutures
    /\ nfut' = nfut + 1
    /\ futures' = [futures EXCEPT ![nfut + 1] = NewFuture(m)]
    /\ _notification_futures' = StoreFuture(m, nfut + 1)

\* a dispatch that emptied every slot
PopFutureAll(m) == [x \in Methods |-> NoFuture]

\* a dispatch that left the waiter in the slot
PopFutureKeep(m) == _notification_futures

\* self._notification_futures.pop(method_name, None): the dict afterwards
PopFuture(m) == [_notification_futures EXCEPT ![m] = NoFuture]

\* a resolution that dropped the params
SetResultNone(f, params) ==
    [futures EXCEPT ![f].state = "done", ![f].result = 0, ![f].setCalls = @ + 1]

\* future.set_result(params): a Future that is no longer pending raises
\* InvalidStateError and keeps its state
SetResult(f, params) ==
    IF futures[f].state = "pending"
    THEN [futures EXCEPT ![f].state = "done", ![f].result = params,
                         ![f].setCalls = @ + 1]
    ELSE [futures EXCEPT ![f].setCalls = @ + 1]

\* the stdout reader runs on the test's event loop: a callback of the loop
\* runs only while the test task is suspended at an await
LoopIdle == testPc # "run"

\* a dispatch that ran the handler only for a notification no waiter took
HandlerRunWithoutWaiter(f, raises, h) ==
    IF raises \/ f # NoFuture THEN "skipped" ELSE h

\* the try of lines 80-88 is reached unless set_result raised; there the
\* handler is looked up and run, and what it does is h
HandlerRun(f, raises, h) == IF raises THEN "skipped" ELSE h

\* a dispatch that treated every notification alike
IsCancelNever(m) == FALSE

\* if method_name == types.CANCEL_REQUEST
IsCancel(m) == m = CANCEL_REQUEST

\* LanguageClientProtocol._handle_notification(method_name, params), called
\* by the reader for the next notification of the stream; h is what the
\* handler lookup and the handler do for it
_handle_notification(h) ==
    /\ LoopIdle
    /\ readerPc = "reading"
    /\ stdout # <<>>
    /\ LET n == Head(stdout)
           m == n.method
           f == _notification_futures[m]
       IN  /\ stdout' = Tail(stdout)
           /\ nread' = nread + 1
           /\ IF IsCancel(m)
              THEN \* self._handle_cancel_notification(params.id); return
                   /\ h = "unknown"
                   /\ lastDispatch' =
                          [method |-> m, params |-> n.params, re |-> n.re,
                           waiter |-> NoFuture, handler |-> "cancel"]
                   /\ dropped' = dropped \cup {m}
                   /\ UNCHANGED <<_notification_futures, futures, missed>>
              ELSE /\ _notification_futures' = PopFuture(m)
                   /\ dropped' = IF f = NoFuture THEN dropped \cup {m} ELSE dropped
                   /\ missed' = (missed \/ (expecting /\ n.re = nsent /\ n.re > 0))
                   /\ futures' = IF f # NoFuture THEN SetResult(f, n.params)
                                 ELSE futures
                   /\ LET raises == f # NoFuture /\ futures[f].state # "pending"
                      IN  /\ raises => h = "unknown"
                          /\ lastDispatch' =
                                 [method |-> m, params |-> n.params, re |-> n.re,
                                  waiter |-> f,
                                  handler |-> HandlerRun(f, raises, h)]
    /\ UNCHANGED <<proc, nwritten, answered, readerPc, nfut, tstVars>>
    \* the handler, whatever it is, is none of SlangClient's: nothing in
    \* conftest.py stores a notification in diagnostics, messages or
    \* log_messages
    /\ UNCHANGED logVars
    /\ UNCHANGED <<docVars, fixVars, wrapVars>>

\* the reader sees end-of-file on the server's stdout and ends
ReaderEof ==
    /\ LoopIdle
    /\ readerPc = "reading"
    /\ proc = "exited"
    /\ stdout = <<>>
    /\ readerPc' = "eof"
    /\ lastDispatch' = NoDispatch
    /\ UNCHANGED <<srvVars, nread, futVars, tstVars, missed>>
    /\ UNCHANGED dropped
    /\ UNCHANGED notNotif

(* ------------------------------ test task ------------------------------ *)

\* a send that suspended the test task
AfterSendSuspends == "yield"

\* openText and append are plain functions: the test task goes on running
AfterSend == "run"

\* client.openText(uri, text) / doc.append(text): one notification is sent
TestSend ==
    /\ testPc = "run"
    /\ nsent < MaxSends
    /\ nsent' = nsent + 1
    /\ expecting' = TRUE
    /\ testPc' = AfterSend
    /\ lastDispatch' = NoDispatch
    /\ UNCHANGED <<srvVars, readerPc, nread, futVars, awaiting, missed>>
    /\ UNCHANGED dropped
    /\ UNCHANGED notNotif

\* client.protocol.wait_for_notification(method): registers and returns
TestRegister(m) ==
    /\ testPc = "run"
    /\ Register(m)
    /\ expecting' = (expecting /\ m # PUBLISH_DIAGNOSTICS)
    /\ lastDispatch' = NoDispatch
    /\ UNCHANGED <<srvVars, readerPc, nread, testPc, awaiting, nsent, missed>>
    /\ UNCHANGED dropped
    /\ UNCHANGED notNotif

\* await client.wait_for_notification(method): registers, then suspends
TestWait(m) ==
    /\ testPc = "run"
    /\ Register(m)
    /\ testPc' = "await"
    /\ awaiting' = nfut + 1
    /\ expecting' = FALSE
    /\ lastDispatch' = NoDispatch
    /\ UNCHANGED <<srvVars, readerPc, nread, nsent, missed>>
    /\ UNCHANGED dropped
    /\ UNCHANGED notNotif

\* the awaited future has its result: the test task runs again
TestWake ==
    /\ testPc = "await"
    /\ futures[awaiting].state = "done"
    /\ testPc' = "run"
    /\ awaiting' = NoFuture
    /\ lastDispatch' = NoDispatch
    /\ UNCHANGED <<srvVars, readerPc, nread, futVars, nsent, expecting, missed>>
    /\ UNCHANGED dropped
    /\ UNCHANGED notNotif

\* the await on wait_for_notification_async is cancelled (a timeout of the
\* test): cancelling the awaitable made by asyncio.wrap_future cancels the
\* Future, which stays where it is in _notification_futures
TestTimeout ==
    /\ testPc = "await"
    /\ futures[awaiting].state = "pending"
    /\ futures' = [futures EXCEPT ![awaiting].state = "cancelled"]
    /\ testPc' = "run"
    /\ awaiting' = NoFuture
    /\ lastDispatch' = NoDispatch
    /\ UNCHANGED <<srvVars, readerPc, nread, _notification_futures, nfut,
                   nsent, expecting, missed>>
    /\ UNCHANGED dropped
    /\ UNCHANGED notNotif

\* the test awaits something else (a request such as getDocDocumentSymbols)
TestYield ==
    /\ testPc = "run"
    /\ testPc' = "yield"
    /\ expecting' = FALSE
    /\ lastDispatch' = NoDispatch
    /\ UNCHANGED <<srvVars, readerPc, nread, futVars, awaiting, nsent, missed>>
    /\ UNCHANGED dropped
    /\ UNCHANGED notNotif

TestResume ==
    /\ testPc = "yield"
    /\ testPc' = "run"
    /\ lastDispatch' = NoDispatch
    /\ UNCHANGED <<srvVars, readerPc, nread, futVars, awaiting, nsent, expecting, missed>>
    /\ UNCHANGED dropped
    /\ UNCHANGED notNotif

\* the test body returns
TestFinish ==
    /\ testPc = "run"
    /\ testPc' = "done"
    /\ expecting' = FALSE
    /\ lastDispatch' = NoDispatch
    /\ UNCHANGED <<srvVars, readerPc, nread, futVars, awaiting, nsent, missed>>
    /\ UNCHANGED dropped
    /\ UNCHANGED notNotif

(* ---------------------------- server process --------------------------- *)

Write(m, re) ==
    /\ proc = "running"
    /\ nwritten < MaxNotifs
    /\ nwritten' = nwritten + 1
    /\ stdout' = Append(stdout, [method |-> m, params |-> nwritten + 1, re |-> re])
    /\ UNCHANGED proc

\* the server publishes diagnostics for a didOpen / didChange it received
ServerReply ==
    /\ answered < nsent
    /\ Write(PUBLISH_DIAGNOSTICS, answered + 1)
    /\ answered' = answered + 1
    /\ lastDispatch' = NoDispatch
    /\ UNCHANGED <<readerPc, nread, futVars, tstVars, missed>>
    /\ UNCHANGED dropped
    /\ UNCHANGED notNotif

\* the server sends a notification of its own accord
ServerNotify(m) ==
    /\ Write(m, 0)
    /\ lastDispatch' = NoDispatch
    /\ UNCHANGED <<answered, readerPc, nread, futVars, tstVars, missed>>
    /\ UNCHANGED dropped
    /\ UNCHANGED notNotif

\* the server process terminates
ServerExit ==
    /\ proc = "running"
    /\ proc' = "exited"
    /\ lastDispatch' = NoDispatch
    /\ UNCHANGED <<stdout, nwritten, answered, readerPc, nread, futVars, tstVars, missed>>
    /\ UNCHANGED dropped
    /\ UNCHANGED notNotif

(* ------------------------------- SlangDoc ------------------------------ *)

\* the characters of the texts: a letter and the line terminator
Alphabet == {"a", "\n"}

\* the texts given to openText and append
Texts == UNION {[1..k -> Alphabet] : k \in 0..MaxLen}

Uris == {"file:///a.sv", "file:///b.sv"}

\* version=0 of the TextDocumentItem sent by openText
OpenVersion == 0

\* self.next_version = 1
FirstNextVersion == 1

NoDoc == [opened |-> FALSE, uri |-> "", text |-> <<>>, next_version |-> 0]

NoPos == [offset |-> -1, line |-> -1, character |-> -1]

RECURSIVE SplitFrom(_, _, _)
SplitFrom(text, i, cur) ==
    IF i > Len(text) THEN <<cur>>
    ELSE IF text[i] = "\n" THEN <<cur>> \o SplitFrom(text, i + 1, <<>>)
    ELSE SplitFrom(text, i + 1, Append(cur, text[i]))

\* text.split("\n")
Split(text) == SplitFrom(text, 1, <<>>)

RECURSIVE ScanLines(_, _, _)
\* the for loop of positionFromOffset, entered at line index i (from 0)
\* with `offset` left: break with character = offset when offset < len(line),
\* else offset -= len(line); when the loop runs out, _line_no is the last
\* index and character is still 0
ScanLines(lines, i, offset) ==
    IF i >= Len(lines) THEN [line |-> Len(lines) - 1, character |-> 0]
    ELSE IF offset < Len(lines[i + 1]) THEN [line |-> i, character |-> offset]
    ELSE ScanLines(lines, i + 1, offset - Len(lines[i + 1]))

\* a conversion that took the offset for a character of the first line
positionFromOffsetUnscanned(text, offset) == [line |-> 0, character |-> offset]

\* SlangDoc.positionFromOffset(offset) on self.text = text
positionFromOffset(text, offset) == ScanLines(Split(text), 0, offset)

RECURSIVE LineStart(_, _)
\* the offset at which line k (from 0) starts: the lengths of the lines
\* before it plus one per line terminator
LineStart(lines, k) ==
    IF k = 0 THEN 0 ELSE LineStart(lines, k - 1) + Len(lines[k]) + 1

\* the offset of a position: the inverse conversion
OffsetFromPosition(text, pos) ==
    LineStart(Split(text), pos.line) + pos.character

Min(a, b) == IF a < b THEN a ELSE b
Max(a, b) == IF a < b THEN b ELSE a

\* the offset the server gives a position of a change event: a character
\* past the end of its line is the end of the line, a line past the last is
\* the end of the text
ServerOffset(text, pos) ==
    LET lines == Split(text)
    IN  IF pos.line >= Len(lines) THEN Len(text)
        ELSE LineStart(lines, pos.line) + Min(pos.character, Len(lines[pos.line + 1]))

\* the server's text after one change event: the range, read in the text
\* as it was, is replaced by the event's text
ApplyChange(text, ev) ==
    LET s == ServerOffset(text, ev.start)
        e == Max(s, ServerOffset(text, ev.end))
    IN  SubSeq(text, 1, s) \o ev.text \o SubSeq(text, e + 1, Len(text))

RECURSIVE ApplyChanges(_, _)
ApplyChanges(text, changes) ==
    IF changes = <<>> THEN text
    ELSE ApplyChanges(ApplyChange(text, Head(changes)), Tail(changes))

\* the positions and change events a test passes to onChange itself
Positions == {[line |-> l, character |-> c] : l \in 0..1, c \in 0..1}
Events ==
    {[start |-> p, end |-> q, text |-> t] :
        p \in Positions, q \in Positions, t \in {<<>>, <<"a">>, <<"\n">>}}

\* a counter that skipped a version
VersionAfterSkipping(v) == v + 2

\* self.next_version += 1
VersionAfter(v) == v + 1

\* SlangClient.openText(uri, text): a SlangDoc is made and didOpen is sent
\* with version 0 and the text; the model follows this one SlangDoc (the
\* objects share no state)
openText(uri, text) ==
    /\ ~doc.opened
    /\ doc' = [opened |-> TRUE, uri |-> uri, text |-> text,
               next_version |-> FirstNextVersion]
    /\ sent' = <<[uri |-> uri, version |-> OpenVersion]>>
    /\ serverText' = text
    /\ onlyAppends' = TRUE
    /\ lastOp' = "openText"
    /\ lastPos' = NoPos
    /\ UNCHANGED notDoc

\* SlangDoc.onChange(changes): didChange is sent with next_version and the
\* events, then next_version is incremented; self.text is not touched
SendChange(d, changes) ==
    /\ sent' = Append(sent, [uri |-> d.uri, version |-> d.next_version])
    /\ serverText' = ApplyChanges(serverText, changes)
    /\ doc' = [d EXCEPT !.next_version = VersionAfter(d.next_version)]

\* doc.onChange([event]) called by a test
onChange(ev) ==
    /\ doc.opened
    /\ Len(sent) <= MaxChanges
    /\ SendChange(doc, <<ev>>)
    /\ onlyAppends' = FALSE
    /\ lastOp' = "onChange"
    /\ UNCHANGED lastPos
    /\ UNCHANGED notDoc

\* SlangDoc.append(text): the position of the end of the text is taken
\* before the text is extended; the event inserts at that position
append(text) ==
    /\ doc.opened
    /\ Len(sent) <= MaxChanges
    /\ LET pos == positionFromOffset(doc.text, Len(doc.text))
       IN  SendChange([doc EXCEPT !.text = doc.text \o text],
                      <<[start |-> pos, end |-> pos, text |-> text]>>)
    /\ lastPos' = NoPos
    /\ lastOp' = "append"
    /\ UNCHANGED onlyAppends
    /\ UNCHANGED notDoc

\* doc.positionFromOffset(offset) called with an offset of the text
QueryPosition(offset) ==
    /\ doc.opened
    /\ offset \in 0..Len(doc.text)
    /\ LET pos == positionFromOffset(doc.text, offset)
       IN  lastPos' = [offset |-> offset, line |-> pos.line,
                       character |-> pos.character]
    /\ UNCHANGED <<doc, sent, serverText, onlyAppends, lastOp>>
    /\ UNCHANGED notDoc

(* ---------------------------- client fixture -------------------------- *)

NoResp == [to |-> "none", kind |-> "none"]

\* a start that put the binary after rr without the record subcommand
CommandWithoutRecord(o) == IF o.rr THEN <<"rr", "binary">> ELSE <<"binary">>

\* SlangClient.start: binary and args by options.rr
Command(o) == IF o.rr THEN <<"rr", "record", "binary">> ELSE <<"binary">>

\* a message written to the server's stdin reaches it while it runs
Deliver(msg) == IF srv = "running" THEN msg ELSE inbox

\* client = SlangClient()
Construct ==
    /\ fixPc = "new"
    /\ fixPc' = "start"
    /\ UNCHANGED <<options, srv, cmd, inbox, resp, sentMsgs, bodyOutcome,
                   stopCalled, stopFound, stop_event, exitNoticed, relayPc, errPipe,
                   errWritten, relayed>>
    /\ UNCHANGED notFix

\* await client.start(my_options) up to the gdb wait: start_io spawns the
\* command or raises; without gdb the stderr task is created at once
StartIo(spawned) ==
    /\ fixPc = "start"
    /\ IF spawned
       THEN /\ srv' = "running"
            /\ cmd' = Command(options)
            /\ IF options.gdb
               THEN fixPc' = "gdb_wait" /\ UNCHANGED relayPc
               ELSE fixPc' = "initialize" /\ relayPc' = "head"
       ELSE /\ fixPc' = "setup_raised"
            /\ UNCHANGED <<srv, cmd, relayPc>>
    /\ UNCHANGED <<options, inbox, resp, sentMsgs, bodyOutcome, stopCalled, stopFound,
                   stop_event, exitNoticed, errPipe, errWritten, relayed>>
    /\ UNCHANGED notFix

\* await asyncio.sleep(int(options.gdb)) is over: the stderr task is created
GdbWaitDone ==
    /\ fixPc = "gdb_wait"
    /\ fixPc' = "initialize"
    /\ relayPc' = "head"
    /\ UNCHANGED <<options, srv, cmd, inbox, resp, sentMsgs, bodyOutcome,
                   stopCalled, stopFound, stop_event, exitNoticed, errPipe, errWritten,
                   relayed>>
    /\ UNCHANGED notFix

\* client.initialize_async(...): the request is sent, the fixture awaits
SendInitialize ==
    /\ fixPc = "initialize"
    /\ sentMsgs' = Append(sentMsgs, "initialize")
    /\ inbox' = Deliver("initialize")
    /\ fixPc' = "await_initialize"
    /\ UNCHANGED <<options, srv, cmd, resp, bodyOutcome, stopCalled, stopFound, stop_event,
                   exitNoticed, relayPc, errPipe, errWritten, relayed>>
    /\ UNCHANGED notFix

\* a fixture that yielded the client whatever the response
AfterInitializeAny(kind) == "body"

\* an error response raises out of initialize_async, a null result fails
\* `assert response is not None`, else `yield client` is reached
AfterInitialize(kind) == IF kind = "result" THEN "body" ELSE "setup_raised"

\* the response to initialize is read
InitializeReturns ==
    /\ fixPc = "await_initialize"
    /\ resp.to = "initialize"
    /\ resp' = NoResp
    /\ fixPc' = AfterInitialize(resp.kind)
    /\ UNCHANGED <<options, srv, cmd, inbox, sentMsgs, bodyOutcome, stopCalled, stopFound,
                   stop_event, exitNoticed, relayPc, errPipe, errWritten,
                   relayed>>
    /\ UNCHANGED notFix

\* how many of the messages sent are m
Count(msgs, m) == Cardinality({i \in 1..Len(msgs) : msgs[i] = m})

\* the test body, holding the client, sends a document notification
BodySends ==
    /\ fixPc = "body"
    /\ Count(sentMsgs, "didOpen") < MaxBodyMsgs
    /\ sentMsgs' = Append(sentMsgs, "didOpen")
    /\ UNCHANGED <<fixPc, options, srv, cmd, inbox, resp, bodyOutcome,
                   stopCalled, stopFound, stop_event, exitNoticed, relayPc, errPipe,
                   errWritten, relayed>>
    /\ UNCHANGED notFix

\* yield client: the test body runs and passes or fails; the fixture is
\* resumed after it either way
BodyEnds(outcome) ==
    /\ fixPc = "body"
    /\ bodyOutcome' = outcome
    /\ fixPc' = "shutdown"
    /\ UNCHANGED <<options, srv, cmd, inbox, resp, sentMsgs, stopCalled, stopFound,
                   stop_event, exitNoticed, relayPc, errPipe, errWritten,
                   relayed>>
    /\ UNCHANGED notFix

\* await client.shutdown_async(None): the request is sent, the fixture awaits
SendShutdown ==
    /\ fixPc = "shutdown"
    /\ sentMsgs' = Append(sentMsgs, "shutdown")
    /\ inbox' = Deliver("shutdown")
    /\ fixPc' = "await_shutdown"
    /\ UNCHANGED <<options, srv, cmd, resp, bodyOutcome, stopCalled, stopFound, stop_event,
                   exitNoticed, relayPc, errPipe, errWritten, relayed>>
    /\ UNCHANGED notFix

\* an error response makes shutdown_async raise out of the fixture
AfterShutdownError == "teardown_raised"

\* the response to shutdown is read
ShutdownReturns ==
    /\ fixPc = "await_shutdown"
    /\ resp.to = "shutdown"
    /\ resp' = NoResp
    /\ fixPc' = IF resp.kind = "error" THEN AfterShutdownError ELSE "exit"
    /\ UNCHANGED <<options, srv, cmd, inbox, sentMsgs, bodyOutcome, stopCalled, stopFound,
                   stop_event, exitNoticed, relayPc, errPipe, errWritten,
                   relayed>>
    /\ UNCHANGED notFix

\* client.exit(None): the notification is sent
SendExit ==
    /\ fixPc = "exit"
    /\ sentMsgs' = Append(sentMsgs, "exit")
    /\ inbox' = Deliver("exit")
    /\ fixPc' = "stop"
    /\ UNCHANGED <<options, srv, cmd, resp, bodyOutcome, stopCalled, stopFound, stop_event,
                   exitNoticed, relayPc, errPipe, errWritten, relayed>>
    /\ UNCHANGED notFix

\* a stop that signalled the process without looking at its state
AfterStopUnchecked(found) == IF found = "exited" THEN "teardown_raised" ELSE "gather"

\* stop() terminates the process only while it has no return code, and
\* goes on to await the client's tasks
AfterStop(found) == "gather"

\* await client.stop(): the stop event is set, a process still running is
\* terminated, and the client's tasks are awaited
ClientStop ==
    /\ fixPc = "stop"
    /\ stopCalled' = TRUE
    /\ stopFound' = srv
    /\ stop_event' = TRUE
    /\ srv' = IF srv = "running" THEN "exited" ELSE srv
    /\ inbox' = "none"
    /\ fixPc' = AfterStop(srv)
    /\ UNCHANGED <<options, cmd, resp, sentMsgs, bodyOutcome, exitNoticed,
                   relayPc, errPipe, errWritten, relayed>>
    /\ UNCHANGED notFix

\* the tasks stop() awaits have ended: the fixture is over
GatherDone ==
    /\ fixPc = "gather"
    /\ relayPc = "ended"
    /\ exitNoticed
    /\ fixPc' = "done"
    /\ UNCHANGED <<options, srv, cmd, inbox, resp, sentMsgs, bodyOutcome,
                   stopCalled, stopFound, stop_event, exitNoticed, relayPc, errPipe,
                   errWritten, relayed>>
    /\ UNCHANGED notFix

\* the client's task that waits for the process to exit sets the stop event
ServerExitNoticed ==
    /\ srv = "exited"
    /\ ~exitNoticed
    /\ exitNoticed' = TRUE
    /\ stop_event' = TRUE
    /\ UNCHANGED <<fixPc, options, srv, cmd, inbox, resp, sentMsgs, bodyOutcome,
                   stopCalled, stopFound, relayPc, errPipe, errWritten, relayed>>
    /\ UNCHANGED notFix

\* stderr_readline, `while not stop_event.is_set()`
RelayHead ==
    /\ relayPc = "head"
    /\ relayPc' = IF stop_event THEN "ended" ELSE "read"
    /\ UNCHANGED <<fixPc, options, srv, cmd, inbox, resp, sentMsgs, bodyOutcome,
                   stopCalled, stopFound, stop_event, exitNoticed, errPipe, errWritten,
                   relayed>>
    /\ UNCHANGED notFix

\* a relay that logged every line it read twice
LoggedTwice(log, line) == Append(Append(log, line), line)

\* stderr_log.info(header...): the line is handed to the logger once
Logged(log, line) == Append(log, line)

\* stderr_readline, `header = await reader.readline()` returns: a line is
\* logged, an empty read (end-of-file) breaks the loop
RelayRead ==
    /\ relayPc = "read"
    /\ IF errPipe # <<>>
       THEN /\ errPipe' = Tail(errPipe)
            /\ relayed' = Logged(relayed, Head(errPipe))
            /\ relayPc' = "head"
       ELSE /\ srv = "exited"
            /\ relayPc' = "ended"
            /\ UNCHANGED <<errPipe, relayed>>
    /\ UNCHANGED <<fixPc, options, srv, cmd, inbox, resp, sentMsgs, bodyOutcome,
                   stopCalled, stopFound, stop_event, exitNoticed, errWritten>>
    /\ UNCHANGED notFix

\* the server answers the request in its inbox
ServerRespond(kind) ==
    /\ srv = "running"
    /\ inbox \in {"initialize", "shutdown"}
    /\ inbox = "shutdown" => kind # "result"
    /\ resp' = [to |-> inbox, kind |-> kind]
    /\ inbox' = "none"
    /\ UNCHANGED <<fixPc, options, srv, cmd, sentMsgs, bodyOutcome, stopCalled, stopFound,
                   stop_event, exitNoticed, relayPc, errPipe, errWritten,
                   relayed>>
    /\ UNCHANGED notFix

\* the server writes a line to its stderr
ServerLogs ==
    /\ srv = "running"
    /\ errWritten < MaxLines
    /\ errWritten' = errWritten + 1
    /\ errPipe' = Append(errPipe, errWritten + 1)
    /\ UNCHANGED <<fixPc, options, srv, cmd, inbox, resp, sentMsgs, bodyOutcome,
                   stopCalled, stopFound, stop_event, exitNoticed, relayPc, relayed>>
    /\ UNCHANGED notFix

\* the server process ends: on the exit notification, or by crashing
ServerEnds ==
    /\ srv = "running"
    /\ srv' = "exited"
    /\ inbox' = "none"
    /\ UNCHANGED <<fixPc, options, cmd, resp, sentMsgs, bodyOutcome, stopCalled, stopFound,
                   stop_event, exitNoticed, relayPc, errPipe, errWritten,
                   relayed>>
    /\ UNCHANGED notFix

(* ------------------ scripts/lsp-rr-wrapper.py ------------------------- *)

\* the bytes a stream can carry: a newline and another byte
Bytes == {"nl", "x"}

\* "".join(lines[1:]) for lines = f.readlines(): what follows the first
\* newline of the file, nothing when the file has at most one line
AfterFirstLine(data) ==
    IF \E i \in 1..Len(data) : data[i] = "nl"
    THEN LET first == CHOOSE i \in 1..Len(data) :
                          /\ data[i] = "nl"
                          /\ \A j \in 1..(i - 1) : data[j] # "nl"
         IN  SubSeq(data, first + 1, Len(data))
    ELSE <<>>

\* a thread object is "none" before start(), then "running", and "ended"
\* when its target has returned or raised
Joined(thread) == thread = "ended"

\* run_command up to the first join: the process is spawned with three
\* pipes and the three relay threads are started
RunCommandStart ==
    /\ runPc = "start"
    /\ process' = "running"
    /\ stdin_thread' = "running"
    /\ stdout_thread' = "running"
    /\ stderr_thread' = "running"
    /\ runPc' = "join_stdout"
    /\ UNCHANGED <<sys_stdin, stdinClosed, process_stdin, process_stdout,
                   process_stderr, childWrote, nErr, nTyped, stdout_file,
                   sys_stdout, sys_stderr>>
    /\ UNCHANGED notWrap

\* stdout_thread.join()
JoinStdout ==
    /\ runPc = "join_stdout"
    /\ Joined(stdout_thread)
    /\ runPc' = "join_stderr"
    /\ UNCHANGED <<process, stdin_thread, stdout_thread, stderr_thread, sys_stdin,
                   stdinClosed, process_stdin, process_stdout, process_stderr,
                   childWrote, nErr, nTyped, stdout_file, sys_stdout, sys_stderr>>
    /\ UNCHANGED notWrap

\* stderr_thread.join()
JoinStderr ==
    /\ runPc = "join_stderr"
    /\ Joined(stderr_thread)
    /\ runPc' = "wait"
    /\ UNCHANGED <<process, stdin_thread, stdout_thread, stderr_thread, sys_stdin,
                   stdinClosed, process_stdin, process_stdout, process_stderr,
                   childWrote, nErr, nTyped, stdout_file, sys_stdout, sys_stderr>>
    /\ UNCHANGED notWrap

\* process.wait()
ProcessWait ==
    /\ runPc = "wait"
    /\ process = "exited"
    /\ runPc' = "join_stdin"
    /\ UNCHANGED <<process, stdin_thread, stdout_thread, stderr_thread, sys_stdin,
                   stdinClosed, process_stdin, process_stdout, process_stderr,
                   childWrote, nErr, nTyped, stdout_file, sys_stdout, sys_stderr>>
    /\ UNCHANGED notWrap

\* stdin_thread.join(), then the stdout file is read back and all but its
\* first line is written to sys.stdout; run_command returns
JoinStdinAndReturn ==
    /\ runPc = "join_stdin"
    /\ Joined(stdin_thread)
    /\ sys_stdout' = sys_stdout \o AfterFirstLine(stdout_file)
    /\ runPc' = "returned"
    /\ UNCHANGED <<process, stdin_thread, stdout_thread, stderr_thread, sys_stdin,
                   stdinClosed, process_stdin, process_stdout, process_stderr,
                   childWrote, nErr, nTyped, stdout_file, sys_stderr>>
    /\ UNCHANGED notWrap

\* relay_input, one iteration: read(1) blocks until a byte or end-of-file
\* is there; end-of-file breaks the loop; a byte is written to the file and
\* to the child's stdin, and that write raises BrokenPipeError, ending the
\* thread, when the child has exited
relay_input ==
    /\ stdin_thread = "running"
    /\ IF sys_stdin # <<>>
       THEN /\ sys_stdin' = Tail(sys_stdin)
            /\ IF process = "exited"
               THEN stdin_thread' = "ended" /\ UNCHANGED process_stdin
               ELSE /\ process_stdin' = Append(process_stdin, Head(sys_stdin))
                    /\ UNCHANGED stdin_thread
       ELSE /\ stdinClosed
            /\ stdin_thread' = "ended"
            /\ UNCHANGED <<sys_stdin, process_stdin>>
    /\ UNCHANGED <<runPc, process, stdout_thread, stderr_thread, stdinClosed,
                   process_stdout, process_stderr, childWrote, nErr, nTyped,
                   stdout_file, sys_stdout, sys_stderr>>
    /\ UNCHANGED notWrap

\* write_and_print_binary(process.stdout, sys.stdout.buffer, stdout_file),
\* one iteration: a byte is written to the file and to dest; the empty
\* read of end-of-file breaks the loop
StdoutRelay ==
    /\ stdout_thread = "running"
    /\ IF process_stdout # <<>>
       THEN /\ process_stdout' = Tail(process_stdout)
            /\ stdout_file' = Append(stdout_file, Head(process_stdout))
            /\ sys_stdout' = Append(sys_stdout, Head(process_stdout))
            /\ UNCHANGED stdout_thread
       ELSE /\ process = "exited"
            /\ stdout_thread' = "ended"
            /\ UNCHANGED <<process_stdout, stdout_file, sys_stdout>>
    /\ UNCHANGED <<runPc, process, stdin_thread, stderr_thread, sys_stdin,
                   stdinClosed, process_stdin, process_stderr, childWrote, nErr,
                   nTyped, sys_stderr>>
    /\ UNCHANGED notWrap

\* write_and_print_binary(process.stderr, sys.stderr.buffer, stderr_file),
\* one iteration
StderrRelay ==
    /\ stderr_thread = "running"
    /\ IF process_stderr # <<>>
       THEN /\ process_stderr' = Tail(process_stderr)
            /\ sys_stderr' = Append(sys_stderr, Head(process_stderr))
            /\ UNCHANGED stderr_thread
       ELSE /\ process = "exited"
            /\ stderr_thread' = "ended"
            /\ UNCHANGED <<process_stderr, sys_stderr>>
    /\ UNCHANGED <<runPc, process, stdin_thread, stdout_thread, sys_stdin,
                   stdinClosed, process_stdin, process_stdout, childWrote, nErr,
                   nTyped, stdout_file, sys_stdout>>
    /\ UNCHANGED notWrap

\* the child writes a byte to its stdout
ChildWritesStdout(b) ==
    /\ process = "running"
    /\ Len(childWrote) < MaxBytes
    /\ childWrote' = Append(childWrote, b)
    /\ process_stdout' = Append(process_stdout, b)
    /\ UNCHANGED <<runPc, process, stdin_thread, stdout_thread, stderr_thread,
                   sys_stdin, stdinClosed, process_stdin, process_stderr, nErr,
                   nTyped, stdout_file, sys_stdout, sys_stderr>>
    /\ UNCHANGED notWrap

\* the child writes a byte to its stderr
ChildWritesStderr ==
    /\ process = "running"
    /\ nErr < MaxErrBytes
    /\ nErr' = nErr + 1
    /\ process_stderr' = Append(process_stderr, "x")
    /\ UNCHANGED <<runPc, process, stdin_thread, stdout_thread, stderr_thread,
                   sys_stdin, stdinClosed, process_stdin, process_stdout,
                   childWrote, nTyped, stdout_file, sys_stdout, sys_stderr>>
    /\ UNCHANGED notWrap

\* the child exits: the write ends of its stdout and stderr are closed
ChildExits ==
    /\ process = "running"
    /\ process' = "exited"
    /\ UNCHANGED <<runPc, stdin_thread, stdout_thread, stderr_thread, sys_stdin,
                   stdinClosed, process_stdin, process_stdout, process_stderr,
                   childWrote, nErr, nTyped, stdout_file, sys_stdout, sys_stderr>>
    /\ UNCHANGED notWrap

\* whoever holds the wrapper's stdin (the editor) writes a byte to it
StdinByte ==
    /\ ~stdinClosed
    /\ nTyped < MaxTyped
    /\ nTyped' = nTyped + 1
    /\ sys_stdin' = Append(sys_stdin, "x")
    /\ UNCHANGED <<runPc, process, stdin_thread, stdout_thread, stderr_thread,
                   stdinClosed, process_stdin, process_stdout, process_stderr,
                   childWrote, nErr, stdout_file, sys_stdout, sys_stderr>>
    /\ UNCHANGED notWrap

\* whoever holds the wrapper's stdin closes it
StdinCloses ==
    /\ ~stdinClosed
    /\ stdinClosed' = TRUE
    /\ UNCHANGED <<runPc, process, stdin_thread, stdout_thread, stderr_thread,
                   sys_stdin, process_stdin, process_stdout, process_stderr,
                   childWrote, nErr, nTyped, stdout_file, sys_stdout, sys_stderr>>
    /\ UNCHANGED notWrap

\* the script before run_command is called
WrapIdle ==
    /\ runPc = "start"
    /\ process = "none"
    /\ stdin_thread = "none"
    /\ stdout_thread = "none"
    /\ stderr_thread = "none"
    /\ sys_stdin = <<>>
    /\ stdinClosed = FALSE
    /\ process_stdin = <<>>
    /\ process_stdout = <<>>
    /\ process_stderr = <<>>
    /\ childWrote = <<>>
    /\ nErr = 0
    /\ nTyped = 0
    /\ stdout_file = <<>>
    /\ sys_stdout = <<>>
    /\ sys_stderr = <<>>

(* ---------------------------- specification ---------------------------- *)

NotifInit ==
    /\ proc = "running"
    /\ stdout = <<>>
    /\ nwritten = 0
    /\ answered = 0
    /\ readerPc = "reading"
    /\ nread = 0
    /\ lastDispatch = NoDispatch
    /\ _notification_futures = [m \in Methods |-> NoFuture]
    /\ futures = [f \in FutureIds |-> NoneFuture]
    /\ nfut = 0
    /\ testPc = "run"
    /\ awaiting = NoFuture
    /\ nsent = 0
    /\ expecting = FALSE
    /\ missed = FALSE
    /\ dropped = {}
    /\ diagnostics = NoDiagnostics
    /\ messages = <<>>
    /\ log_messages = <<>>

Dispatch == \E h \in HandlerOutcomes : _handle_notification(h)

DocInit ==
    /\ doc = NoDoc
    /\ sent = <<>>
    /\ serverText = <<>>
    /\ onlyAppends = TRUE
    /\ lastOp = "none"
    /\ lastPos = NoPos

FixIdle ==
    /\ fixPc = "new"
    /\ srv = "none"
    /\ cmd = <<>>
    /\ inbox = "none"
    /\ resp = NoResp
    /\ sentMsgs = <<>>
    /\ bodyOutcome = "none"
    /\ stopCalled = FALSE
    /\ stopFound = "none"
    /\ stop_event = FALSE
    /\ exitNoticed = FALSE
    /\ relayPc = "none"
    /\ errPipe = <<>>
    /\ errWritten = 0
    /\ relayed = <<>>

Init ==
    /\ NotifInit
    /\ DocInit
    /\ FixIdle
    /\ WrapIdle
    /\ options = [rr |-> FALSE, gdb |-> FALSE]

FixInit ==
    /\ NotifInit
    /\ DocInit
    /\ FixIdle
    /\ WrapIdle
    /\ options \in [rr : BOOLEAN, gdb : BOOLEAN]

\* the waiters: a test that registers and awaits, the reader, the server
Next ==
    \/ Dispatch
    \/ ReaderEof
    \/ \E m \in Methods : TestRegister(m)
    \/ \E m \in Methods : TestWait(m)
    \/ TestWake
    \/ TestYield
    \/ TestResume
    \/ TestFinish
    \/ \E m \in Methods : ServerNotify(m)
    \/ ServerExit

Spec == Init /\ [][Next]_vars

\* the tests' pattern: a test that sends (openText, append), awaits a
\* notification or a request, and a server that replies to what it is sent
SendNext ==
    \/ Dispatch
    \/ ReaderEof
    \/ TestSend
    \/ \E m \in Methods : TestWait(m)
    \/ TestWake
    \/ TestYield
    \/ TestResume
    \/ TestFinish
    \/ ServerReply
    \/ \E m \in Methods : ServerNotify(m)
    \/ ServerExit

SendSpec == Init /\ [][SendNext]_vars

\* The event loop runs every ready callback: the reader when data or
\* end-of-file is there, the test task when its future is done.
FairSpec ==
    /\ Spec
    /\ WF_vars(Dispatch)
    /\ WF_vars(ReaderEof)
    /\ WF_vars(TestWake)
    /\ WF_vars(TestResume)

\* the waiters of a test whose awaits can time out
TimeoutNext ==
    \/ Next
    \/ TestTimeout

TimeoutSpec == Init /\ [][TimeoutNext]_vars

DocNext ==
    \/ \E uri \in Uris, text \in Texts : openText(uri, text)
    \/ \E text \in Texts : append(text)
    \/ \E ev \in Events : onChange(ev)
    \/ \E offset \in 0..(MaxLen * (MaxChanges + 1)) : QueryPosition(offset)

DocSpec == Init /\ [][DocNext]_vars

FixNext ==
    \/ Construct
    \/ \E spawned \in BOOLEAN : StartIo(spawned)
    \/ GdbWaitDone
    \/ SendInitialize
    \/ InitializeReturns
    \/ BodySends
    \/ \E outcome \in {"passed", "failed"} : BodyEnds(outcome)
    \/ SendShutdown
    \/ ShutdownReturns
    \/ SendExit
    \/ ClientStop
    \/ GatherDone
    \/ ServerExitNoticed
    \/ RelayHead
    \/ RelayRead
    \/ \E kind \in {"result", "null", "error"} : ServerRespond(kind)
    \/ ServerLogs
    \/ ServerEnds

FixtureSpec == FixInit /\ [][FixNext]_vars

\* The event loop runs the fixture coroutine, the stderr task and the
\* process-exit task whenever they can go on, and the test body ends; the
\* server is under no obligation.
FixFairSpec ==
    /\ FixtureSpec
    /\ WF_vars(Construct)
    /\ WF_vars(\E spawned \in BOOLEAN : StartIo(spawned))
    /\ WF_vars(GdbWaitDone)
    /\ WF_vars(SendInitialize)
    /\ WF_vars(InitializeReturns)
    /\ WF_vars(\E outcome \in {"passed", "failed"} : BodyEnds(outcome))
    /\ WF_vars(SendShutdown)
    /\ WF_vars(ShutdownReturns)
    /\ WF_vars(SendExit)
    /\ WF_vars(ClientStop)
    /\ WF_vars(GatherDone)
    /\ WF_vars(ServerExitNoticed)
    /\ WF_vars(RelayHead)
    /\ WF_vars(RelayRead)

\* the wrapper script: run_command, its three relay threads, the child and
\* the holder of the wrapper's stdin
WrapNext ==
    \/ RunCommandStart
    \/ JoinStdout
    \/ JoinStderr
    \/ ProcessWait
    \/ JoinStdinAndReturn
    \/ relay_input
    \/ StdoutRelay
    \/ StderrRelay
    \/ \E b \in Bytes : ChildWritesStdout(b)
    \/ ChildWritesStderr
    \/ ChildExits
    \/ StdinByte
    \/ StdinCloses

WrapSpec == Init /\ [][WrapNext]_vars

\* Every thread of the wrapper runs when it can go on; the child and the
\* holder of the wrapper's stdin are under no obligation.
WrapFairSpec ==
    /\ WrapSpec
    /\ WF_vars(RunCommandStart)
    /\ WF_vars(JoinStdout)
    /\ WF_vars(JoinStderr)
    /\ WF_vars(ProcessWait)
    /\ WF_vars(JoinStdinAndReturn)
    /\ WF_vars(relay_input)
    /\ WF_vars(StdoutRelay)
    /\ WF_vars(StderrRelay)

(* ------------------------------- claims -------------------------------- *)

\* this step is _handle_notification called for a notification of method m
DispatchOf(m) ==
    /\ nread' = nread + 1
    /\ stdout # <<>>
    /\ Head(stdout).method = m

\* future f was replaced in its slot while pending
Abandoned(f) ==
    /\ f <= nfut
    /\ futures[f].state = "pending"
    /\ _notification_futures[futures[f].method] # f

\* C1 as stated: for every method name M, a waiter registered for M when an
\* M notification is dispatched is resolved with that notification's params.
C1_EveryMethodResolved ==
    [][\A m \in Methods :
         LET f == _notification_futures[m] IN
         (DispatchOf(m) /\ f # NoFuture)
            => /\ futures'[f].state = "done"
               /\ futures'[f].result = Head(stdout).params]_vars

\* C1 amended: for every method name M other than $/cancelRequest, a waiter
\* registered for M when an M notification is dispatched (registered before,
\* not replaced since) is resolved with exactly that notification's params.
C1_WaiterResolvedWithParams ==
    [][\A m \in Methods \ {CANCEL_REQUEST} :
         LET f == _notification_futures[m] IN
         (DispatchOf(m) /\ f # NoFuture)
            => /\ futures'[f].state = "done"
               /\ futures'[f].result = Head(stdout).params]_vars

C1_Witness ==
    \E f \in FutureIds :
        /\ futures[f].state = "done"
        /\ lastDispatch.waiter = f
        /\ lastDispatch.method = futures[f].method
        /\ futures[f].result = lastDispatch.params
        /\ futures[f].regAt < futures[f].result

\* no waiter that is registered is still pending
NoPendingWaiter ==
    \A m \in Methods :
        _notification_futures[m] # NoFuture
            => futures[_notification_futures[m]].state # "pending"

\* C2: once the server process has exited, every waiter held in
\* _notification_futures is eventually resolved (with a failure).
C2_ExitSettlesWaiters == (proc = "exited") ~> NoPendingWaiter

\* C7: no reply to a send is dispatched between the send and the
\* registration of the waiter that follows it.
C7_ReplyNeverMissed == ~missed

C7_Witness ==
    \E f \in FutureIds :
        /\ futures[f].afterSend > 0
        /\ futures[f].state = "done"
        /\ lastDispatch.re = futures[f].afterSend
        /\ lastDispatch.waiter = f

C9_ResolvedAtMostOnce ==
    /\ \A f \in FutureIds : futures[f].setCalls <= 1
    /\ \A m \in Methods :
         LET f == _notification_futures[m] IN
         f # NoFuture => /\ futures[f].state = "pending"
                         /\ futures[f].setCalls = 0
                         /\ futures[f].method = m
    /\ \A m \in Methods :
         Cardinality({f \in 1..nfut : /\ futures[f].method = m
                                      /\ futures[f].state = "pending"
                                      /\ ~Abandoned(f)}) <= 1

C9_Witness ==
    \E f \in FutureIds :
        /\ futures[f].state = "done"
        /\ futures[f].setCalls = 1
        /\ lastDispatch.method = futures[f].method
        /\ lastDispatch.params > futures[f].result
        /\ lastDispatch.waiter = NoFuture
        /\ lastDispatch.handler # "skipped"

\* a dispatch that finds no waiter does not raise; the result of a future
\* is never a notification read before it was registered
NeverAnEarlierOne ==
    /\ \A f \in FutureIds :
          futures[f].state = "done"
              => /\ futures[f].regAt < futures[f].result
                 /\ futures[f].result <= nread
    /\ lastDispatch.waiter = NoFuture => lastDispatch.handler # "skipped"

\* in this step a future is created pending, and becomes done only by the
\* dispatch of a notification of its method, with that notification's
\* params, while it is in the slot
ResolvedOnlyByDispatch ==
    \A f \in FutureIds :
        /\ (futures[f].state = "none" /\ futures'[f].state # "none")
               => futures'[f].state = "pending"
        /\ (futures[f].state = "pending" /\ futures'[f].state = "done")
               => /\ DispatchOf(futures[f].method)
                  /\ _notification_futures[futures[f].method] = f
                  /\ futures'[f].result = Head(stdout).params
                  /\ futures'[f].result = nread'

\* in this step a waiter for a method of Ms that was registered after a
\* notification of the method reached no waiter is resolved by the
\* notification of the method now dispatched, with its params
LateWaiterResolved(Ms) ==
    \A m \in Ms :
        LET f == _notification_futures[m] IN
        (DispatchOf(m) /\ f # NoFuture /\ futures[f].late)
            => /\ futures'[f].state = "done"
               /\ futures'[f].result = Head(stdout).params

\* C10 as stated: for every method M, a notification dispatched with no
\* waiter is neither an error nor buffered, and a waiter registered
\* afterwards is resolved by the later M notification, never an earlier one.
C10_EveryMethodNotBuffered ==
    /\ []NeverAnEarlierOne
    /\ [][ResolvedOnlyByDispatch /\ LateWaiterResolved(Methods)]_vars

\* C10 amended: the same for every method M other than $/cancelRequest; a
\* waiter for $/cancelRequest stays pending whatever is dispatched.
C10_NotBuffered ==
    /\ []NeverAnEarlierOne
    /\ [][/\ ResolvedOnlyByDispatch
          /\ LateWaiterResolved(Methods \ {CANCEL_REQUEST})
          /\ \A f \in FutureIds :
               (futures[f].method = CANCEL_REQUEST /\ futures[f].state = "pending")
                   => futures'[f].state = "pending"]_vars

C10_Witness ==
    \E f \in FutureIds :
        /\ futures[f].state = "done"
        /\ futures[f].late
        /\ futures[f].regAt > 0
        /\ lastDispatch.waiter = f
        /\ lastDispatch.params = futures[f].result

\* C4: didOpen carries version 0 and the k-th change sent for the document
\* carries version k: the versions sent are 0, 1, 2, ... in this order, all
\* for the document's uri, and next_version is the next one.
C4_VersionsCountChanges ==
    doc.opened =>
        /\ Len(sent) >= 1
        /\ \A i \in 1..Len(sent) :
              /\ sent[i].version = i - 1
              /\ sent[i].uri = doc.uri
        /\ doc.next_version = Len(sent)

C4_Witness ==
    /\ doc.opened
    /\ Len(sent) = 3
    /\ sent[3].version = 2
    /\ ~onlyAppends
    /\ doc.text # serverText

\* C5: after openText and append calls only, the local text is the text the
\* change events sent make of the opened text.
C5_ShadowEqualsServer ==
    (doc.opened /\ onlyAppends) => doc.text = serverText

\* C6: for every offset of the text, the position positionFromOffset gives
\* converts back to that offset.
C6_RoundTrip ==
    lastPos # NoPos => OffsetFromPosition(doc.text, lastPos) = lastPos.offset

\* C3: when the fixture has ended after the test body ran, whatever the
\* body's outcome and whatever the shutdown request did, the exit
\* notification was sent and stop was called.
C3_ReleaseAttemptsAll ==
    (fixPc \in {"done", "teardown_raised"} /\ bodyOutcome # "none")
        => /\ \E i \in 1..Len(sentMsgs) : sentMsgs[i] = "shutdown"
           /\ \E i \in 1..Len(sentMsgs) : sentMsgs[i] = "exit"
           /\ stopCalled

\* the last step was a dispatch that raised before it reached the handler
DispatchRaised == lastDispatch.handler = "skipped"

\* C11: the dispatch of an M notification that finds in the slot a waiter
\* cancelled by a timeout does not raise and reaches the regular handler.
C11_UsableAfterTimeout ==
    (/\ lastDispatch.waiter # NoFuture
     /\ futures[lastDispatch.waiter].state = "cancelled")
        => ~DispatchRaised

\* the messages of a whole run, in order: initialize, the test body's
\* traffic, shutdown, exit
RunOrder(n) == <<"initialize">> \o [i \in 1..n |-> "didOpen"] \o <<"shutdown", "exit">>

\* C12: the events of the fixture occur in the order process start,
\* initialize request, initialize response, yield, shutdown request, exit
\* notification, stop; the client is yielded only on a non-null, non-error
\* initialize response, and the test body's traffic comes after the yield.
C12_FixtureOrder ==
    /\ [](/\ \E n \in 0..Len(sentMsgs) :
               /\ Len(sentMsgs) <= n + 3
               /\ sentMsgs = SubSeq(RunOrder(n), 1, Len(sentMsgs))
          /\ sentMsgs # <<>> => srv # "none"
          /\ Count(sentMsgs, "didOpen") > 0 => fixPc \notin {"new", "start",
                 "gdb_wait", "initialize", "await_initialize", "setup_raised"}
          /\ Count(sentMsgs, "shutdown") > 0 => bodyOutcome # "none"
          /\ stopCalled => Count(sentMsgs, "exit") = 1
          /\ fixPc = "setup_raised" => bodyOutcome = "none")
    /\ [][(fixPc' = "body" /\ fixPc # "body")
            => /\ fixPc = "await_initialize"
               /\ resp = [to |-> "initialize", kind |-> "result"]
               /\ sentMsgs = <<"initialize">>
               /\ srv # "none"]_vars

C12_Witness ==
    /\ fixPc = "done"
    /\ stopCalled
    /\ sentMsgs = RunOrder(1)
    /\ bodyOutcome = "failed"

\* C13: once the fixture awaits the response to initialize, it leaves that
\* await: with a failure when the response is an error or never arrives.
C13_AcquisitionEnds ==
    (fixPc = "await_initialize") ~> (fixPc \in {"body", "setup_raised"})

\* C14: after the dispatch of a publishDiagnostics notification the
\* diagnostics map holds what it published, and the dispatch of a
\* window/logMessage notification appends it to log_messages, which
\* otherwise does not change.
C14_LogsRecordNotifications ==
    [][/\ DispatchOf(PUBLISH_DIAGNOSTICS) => diagnostics' = Head(stdout).params
       /\ DispatchOf(LOG_MESSAGE)
            => log_messages' = Append(log_messages, Head(stdout).params)
       /\ ~DispatchOf(LOG_MESSAGE) => log_messages' = log_messages]_vars

\* C15: for every text and every offset from 0 to its length,
\* positionFromOffset gives a line that is a line index of the text and a
\* character between 0 and the length of that line.
C15_PositionInText ==
    lastPos # NoPos =>
        /\ lastPos.line \in 0..(Len(Split(doc.text)) - 1)
        /\ lastPos.character \in 0..Len(Split(doc.text)[lastPos.line + 1])

C15_Witness ==
    /\ lastPos # NoPos
    /\ lastPos.offset = Len(doc.text)
    /\ lastPos.line > 0
    /\ doc.text[Len(doc.text)] # "\n"

\* C16: the dispatch of a $/cancelRequest notification goes to the
\* cancellation bookkeeping only: no generic handler is looked up or run, no
\* unknown-method warning is logged, and no waiter is resolved or removed.
C16_CancelRoutedToBookkeeping ==
    [][DispatchOf(CANCEL_REQUEST)
          => /\ lastDispatch'.handler = "cancel"
             /\ lastDispatch'.waiter = NoFuture
             /\ futures' = futures
             /\ _notification_futures' = _notification_futures]_vars

C16_Witness ==
    /\ lastDispatch.method = CANCEL_REQUEST
    /\ lastDispatch.handler = "cancel"
    /\ _notification_futures[CANCEL_REQUEST] # NoFuture
    /\ futures[_notification_futures[CANCEL_REQUEST]].state = "pending"

\* C17: no dispatch raises: a notification without a handler is logged and
\* ignored, a handler that throws is logged, with or without a waiter
\* registered for the method.
C17_DispatchNeverRaises == ~DispatchRaised

\* C18: when stop is called on a server process that has already exited,
\* the call returns and the fixture's teardown completes.
C18_StopOnExitedCompletes ==
    (fixPc = "stop" /\ srv = "exited") ~> (fixPc = "done")

C18_Witness ==
    /\ fixPc = "done"
    /\ stopFound = "exited"
    /\ relayPc = "ended"

\* C19: a change made through onChange raises the version by one, sends
\* one didChange, and leaves the local text equal to the server's text
\* when they were equal before it.
C19_OnChangeUpdatesShadow ==
    [][(sent' # sent /\ lastOp' = "onChange")
          => /\ Len(sent') = Len(sent) + 1
             /\ doc'.next_version = doc.next_version + 1
             /\ doc.text = serverText => doc'.text = serverText']_vars

\* C20: the dispatch of a non-cancel notification that finds a pending
\* waiter resolves the waiter with the params, by one set_result call, and
\* in the same step looks up and runs the regular handler with the same
\* params; whatever the handler does, the waiter stays resolved.
C20_WaiterThenHandler ==
    [][/\ \A m \in Methods \ {CANCEL_REQUEST} :
            LET f == _notification_futures[m] IN
            (DispatchOf(m) /\ f # NoFuture /\ futures[f].state = "pending")
               => /\ futures'[f].state = "done"
                  /\ futures'[f].result = Head(stdout).params
                  /\ futures'[f].setCalls = 1
                  /\ lastDispatch'.waiter = f
                  /\ lastDispatch'.params = Head(stdout).params
                  /\ lastDispatch'.handler \in HandlerOutcomes
       /\ \A f \in FutureIds :
            futures[f].state = "done"
               => /\ futures'[f].state = "done"
                  /\ futures'[f].result = futures[f].result]_vars

C20_Witness ==
    \E f \in FutureIds :
        /\ lastDispatch.waiter = f
        /\ lastDispatch.handler = "failed"
        /\ futures[f].state = "done"
        /\ futures[f].result = lastDispatch.params
        /\ futures[f].setCalls = 1

\* the lines logged, followed by the lines still in the pipe, are the lines
\* the server wrote, each once and in the order written; the relay exists
\* only for a spawned process and has ended when stop() has returned
RelayKeepsLines ==
    /\ relayed \o errPipe = [i \in 1..errWritten |-> i]
    /\ relayPc # "none" => srv # "none"
    /\ fixPc = "done" => relayPc = "ended"

\* a line is logged only by a read, which logs the oldest line of the pipe;
\* the loop ends only at its head with the stop event set or on a read at
\* end-of-file; an ended relay stays ended and logs nothing
RelayStep ==
    /\ relayed' # relayed
          => /\ relayPc = "read"
             /\ relayPc' = "head"
             /\ errPipe # <<>>
             /\ relayed' = Append(relayed, Head(errPipe))
    /\ (relayPc # "ended" /\ relayPc' = "ended")
          => \/ relayPc = "head" /\ stop_event
             \/ relayPc = "read" /\ errPipe = <<>> /\ srv = "exited"
    /\ relayPc = "ended" => (relayPc' = "ended" /\ relayed' = relayed)

\* C21: the stderr relay logs every line it reads exactly once and in the
\* order read; it ends on end-of-file or on seeing the stop event at the head
\* of its loop and logs nothing afterwards; stop() returns only after it has
\* ended, and once the process has exited the relay ends.
C21_RelayForwardsInOrder ==
    /\ []RelayKeepsLines
    /\ [][RelayStep]_vars
    /\ (srv = "exited" /\ relayPc # "none") ~> (relayPc = "ended")

C21_Witness ==
    /\ fixPc = "done"
    /\ relayPc = "ended"
    /\ relayed = <<1, 2>>
    /\ errPipe = <<>>

\* the protocol messages of the fixture itself among the messages sent
FixtureMsgs(msgs) ==
    SelectSeq(msgs, LAMBDA x : x \in {"initialize", "shutdown", "exit"})

\* C22: the spawned command is the binary alone without the rr option and
\* rr, record, binary with it; with the gdb option initialize is sent only
\* after the attach wait is over; whatever the options, the fixture's own
\* messages are initialize, shutdown, exit in this order.
C22_WrapChangesOnlyLaunch ==
    /\ [](/\ srv # "none" =>
                cmd = IF options.rr THEN <<"rr", "record", "binary">>
                                    ELSE <<"binary">>
          /\ fixPc \in {"new", "start", "gdb_wait", "initialize"} => sentMsgs = <<>>
          /\ \E k \in 0..3 :
                FixtureMsgs(sentMsgs) = SubSeq(<<"initialize", "shutdown", "exit">>, 1, k)
          /\ fixPc = "done" =>
                FixtureMsgs(sentMsgs) = <<"initialize", "shutdown", "exit">>)
    /\ [][/\ options' = options
          /\ (fixPc' = "initialize" /\ fixPc # "initialize")
                => fixPc = IF options.gdb THEN "gdb_wait" ELSE "start"
          /\ (sentMsgs = <<>> /\ sentMsgs' # <<>>)
                => (fixPc = "initialize" /\ sentMsgs' = <<"initialize">>)]_vars

C22_Witness ==
    /\ options = [rr |-> TRUE, gdb |-> TRUE]
    /\ cmd = <<"rr", "record", "binary">>
    /\ fixPc = "done"
    /\ FixtureMsgs(sentMsgs) = <<"initialize", "shutdown", "exit">>

\* C23: when the fixture has ended, by finishing or by raising during setup
\* or release, and it had spawned the server process, stop was called.
C23_SpawnedProcessIsStopped ==
    (fixPc \in {"done", "setup_raised", "teardown_raised"} /\ srv # "none")
        => stopCalled

\* this step leaves the slot of every method other than m, and the future
\* in it, as they were
OtherSlotsKept(m) ==
    \A m2 \in Methods \ {m} :
        /\ _notification_futures'[m2] = _notification_futures[m2]
        /\ _notification_futures[m2] # NoFuture
              => futures'[_notification_futures[m2]] = futures[_notification_futures[m2]]

\* this step is wait_for_notification(m): a new future is stored in slot m
RegisterOf(m) ==
    /\ nfut' = nfut + 1
    /\ futures'[nfut'].method = m

\* C24: the dispatch of an M notification leaves every slot other than M's
\* and the waiter in it unchanged, so that waiter stays registered and
\* pending; registering a waiter for M leaves every other slot unchanged,
\* puts a pending waiter in slot M and resolves no waiter.
C24_OnlyOwnSlotChanges ==
    [][\A m \in Methods :
          /\ DispatchOf(m) => OtherSlotsKept(m)
          /\ RegisterOf(m)
                => /\ OtherSlotsKept(m)
                   /\ _notification_futures'[m] = nfut'
                   /\ futures'[nfut'].state = "pending"
                   /\ \A f \in 1..nfut : futures'[f] = futures[f]]_vars

C24_Witness ==
    /\ lastDispatch.method = PUBLISH_DIAGNOSTICS
    /\ lastDispatch.waiter # NoFuture
    /\ futures[lastDispatch.waiter].state = "done"
    /\ _notification_futures[PUBLISH_DIAGNOSTICS] = NoFuture
    /\ _notification_futures[LOG_MESSAGE] # NoFuture
    /\ futures[_notification_futures[LOG_MESSAGE]].state = "pending"

\* s is an initial part of t
IsPrefix(s, t) == Len(s) <= Len(t) /\ s = SubSeq(t, 1, Len(s))

\* C25: once the child has exited and both relay threads have seen
\* end-of-file on its stdout and stderr, run_command returns, whether or not
\* the wrapper's stdin reaches end-of-file; and when run_command has
\* returned the wrapper's stdout starts with every byte the child wrote to
\* its stdout, in the order written.
C25_ReturnsAfterChildExit ==
    /\ (/\ process = "exited"
        /\ stdout_thread = "ended"
        /\ stderr_thread = "ended") ~> (runPc = "returned")
    /\ [](runPc = "returned" => IsPrefix(childWrote, sys_stdout))

====
